---- MODULE Spec2Model ----
(***************************************************************************)
(* Model of bathy_fromSeissol.py: resampling of SeisSol surface output     *)
(* (triangular mesh, per-face samples) onto a structured grid.             *)
(*                                                                         *)
(* Floating-point numbers are modelled as exact rationals <<n, d>> in      *)
(* lowest terms with d > 0; d = 0 encodes the non-finite results of a      *)
(* numpy division by zero (<<1,0>> = inf, <<-1,0>> = -inf, <<0,0>> = nan). *)
(* Coordinates are integers counted in units of eps (line 196).            *)
(***************************************************************************)
EXTENDS Integers, Sequences, FiniteSets, TLC

VARIABLES
    bary_in,     \* getBarycentricCoord: <<pto, vert_a, vert_b, vert_c>>
    bary_out,    \* getBarycentricCoord: <<>> before the call, then the result
    conv_in0,    \* mesh2dCRSconversion: the mesh2d argument before the call
    conv_in,     \* mesh2dCRSconversion: the mesh2d argument, [vertices, faces]
    conv_out,    \* mesh2dCRSconversion: the mesh returned
    conv_pc,     \* "idle", "ready" (before the call) or "done"
    rect_in,     \* get_values_inside_rectangle: <<x, y, sw, ne>>
    rect_out,    \* get_values_inside_rectangle: <<>>, then the <<x, y>> returned
    mesh2d,      \* interpolate_pointCloud: [vertices, faces], z = 0 dropped
    nodes_values,\* interpolate_pointCloud: value of each mesh node
    points0,     \* the query points as the caller built them
    points,      \* the caller's query point array (rows <<x, y, z>>)
    face_indexes,\* triangle index per query point, -1 = no face
    interpolated_values, \* the returned array
    cast_memo,   \* the answers of the ray caster so far: ray origin -> face
    ip_pc,       \* "idle", "ready" (before the call) or "done" (returned)
    ip_err,      \* exception raised by interpolate_pointCloud, "none" if none
    mesh3d,      \* assign_nodes_values: [nvertices, faces, area_faces]
    values,      \* sx.ReadData(variable): values[instant][face]
    variable,    \* assign_nodes_values: the variable asked for
    instant,     \* assign_nodes_values: the time step asked for
    nodes_arrays,\* the directory nodes_arrays: file name -> saved array
    an_pc,       \* "idle", "ready" (before the call) or "done"
    an_err,      \* exception raised by assign_nodes_values, "none" if none
    bounds,      \* mesh2d.bounds: <<sw, ne>> of the mesh in its own CRS
    transformer, \* the pyproj transformer of inputcrs: [a, c], see Transform
    SW_new,      \* hysea_mesh_corners: returned lower left corner
    NE_new,      \* hysea_mesh_corners: returned upper right corner
    hc_pc,       \* "idle", "ready" (before the call) or "done"
    args,        \* seissol2hysea / generate_bathymetry: the arguments
    ndt,         \* sx.ReadNdt()
    pc,          \* position of the run: "idle", "start", "generate", "slices",
                 \* "done", "grd_done" or "error"
    err,         \* the exception that ended the run, "none" if none
    instants,    \* seissol2hysea: the time steps worked on
    variables,   \* seissol2hysea: the variables worked on
    warned,      \* whether the warning of line 397 was printed
    nodes2generate, \* seissol2hysea: the pairs found missing
    gen_i,       \* how many entries of nodes2generate are done
    calls,       \* the (variable, instant) of each assign_nodes_values call
    cache0,      \* the file names in nodes_arrays when the run began
    mode,        \* which branch of lines 431-473 gave the axes
    x_axis,      \* x of lines 431-476
    y_axis,      \* y of lines 431-476
    slice_i,     \* how many slices are written
    ds,          \* the output dataset: [x, y, data], data[<<variable, t>>]
    grd          \* what grdwrite received: [x, y, z]

ipvars == <<mesh2d, nodes_values, points0, points, face_indexes,
            interpolated_values, cast_memo, ip_pc, ip_err>>

anvars == <<mesh3d, values, variable, instant, nodes_arrays, an_pc, an_err>>

hcvars == <<bounds, transformer, SW_new, NE_new, hc_pc>>

runvars == <<args, ndt, pc, err, instants, variables, warned, nodes2generate,
             gen_i, calls, cache0, mode, x_axis, y_axis, slice_i, ds, grd>>

cvvars == <<conv_in0, conv_in, conv_out, conv_pc>>

rcvars == <<rect_in, rect_out>>

vars == <<bary_in, bary_out, cvvars, rcvars, ipvars, anvars, hcvars, runvars>>

(* ---------------------------------------------------------------------- *)
(* Bounds of the model                                                     *)
(* ---------------------------------------------------------------------- *)
MaxCoord == 2
MeshSide == 2       \* side of the square test mesh, in units of eps
MaxPts == 2         \* most query points of one interpolate_pointCloud call
MaxArea == 2        \* largest face area
MaxNdt == 2         \* most time steps of the SeisSol output
MaxExtent == 2      \* largest width and height of the mesh bounds
MaxShift == 1       \* largest distortion of the coordinate transform

(* ---------------------------------------------------------------------- *)
(* Program constants                                                       *)
(* ---------------------------------------------------------------------- *)
eps == 1            \* the perturbation of line 196; the unit of length
ZStart == -10800    \* z = -1 of the query points, in units of eps

(* ---------------------------------------------------------------------- *)
(* Rational arithmetic (float64 arithmetic, idealised)                     *)
(* ---------------------------------------------------------------------- *)
Abs(n) == IF n < 0 THEN -n ELSE n

Sign(n) == IF n < 0 THEN -1 ELSE IF n > 0 THEN 1 ELSE 0

RECURSIVE GCD(_, _)
GCD(a, b) == IF b = 0 THEN a ELSE GCD(b, a % b)

Norm(n, d) ==
    IF d = 0 THEN <<Sign(n), 0>>
    ELSE LET g == GCD(Abs(n), Abs(d))
             s == Sign(d)
         IN <<(s * n) \div g, (s * d) \div g>>

R(n) == <<n, 1>>

IsFinite(a) == a[2] # 0

RAdd(a, b) ==
    IF a[2] # 0 /\ b[2] # 0 THEN Norm(a[1] * b[2] + b[1] * a[2], a[2] * b[2])
    ELSE IF a[2] # 0 THEN b
    ELSE IF b[2] # 0 THEN a
    ELSE IF a = b THEN a ELSE <<0, 0>>

RNeg(a) == <<-a[1], a[2]>>

RSub(a, b) == RAdd(a, RNeg(b))

RMul(a, b) ==
    IF a[2] # 0 /\ b[2] # 0 THEN Norm(a[1] * b[1], a[2] * b[2])
    ELSE <<Sign(a[1]) * Sign(b[1]), 0>>

RDiv(a, b) ==
    IF a[2] = 0 /\ b[2] = 0 THEN <<0, 0>>
    ELSE IF b[2] = 0 THEN (IF b[1] = 0 THEN <<0, 0>> ELSE <<0, 1>>)
    ELSE IF a[2] = 0 THEN <<a[1] * (IF b[1] < 0 THEN -1 ELSE 1), 0>>
    ELSE Norm(a[1] * b[2], a[2] * b[1])

RLess(a, b) == a[1] * b[2] < b[1] * a[2]

(* ---------------------------------------------------------------------- *)
(* getBarycentricCoord                                                     *)
(* ---------------------------------------------------------------------- *)
Dot(u, v) == u[1] * v[1] + u[2] * v[2]

Minus(u, v) == <<u[1] - v[1], u[2] - v[2]>>

normal_of(vert_a, vert_x) == <<vert_a[2] - vert_x[2], vert_x[1] - vert_a[1]>>

getBarycentricCoord_WrongAlpha(pto, vert_a, vert_b, vert_c) ==
    LET ab == Minus(vert_b, vert_a)
        ac == Minus(vert_c, vert_a)
        ap == Minus(pto, vert_a)
        normal_ac == normal_of(vert_a, vert_c)
        normal_ab == normal_of(vert_a, vert_b)
        bary_beta == RDiv(R(Dot(ap, normal_ac)), R(Dot(ab, normal_ac)))
        bary_gamma == RDiv(R(Dot(ap, normal_ab)), R(Dot(ac, normal_ab)))
        bary_alpha == RSub(R(1), RAdd(bary_beta, bary_beta))
    IN <<bary_alpha, bary_beta, bary_gamma>>

getBarycentricCoord(pto, vert_a, vert_b, vert_c) ==
    LET ab == Minus(vert_b, vert_a)
        ac == Minus(vert_c, vert_a)
        ap == Minus(pto, vert_a)
        normal_ac == normal_of(vert_a, vert_c)
        normal_ab == normal_of(vert_a, vert_b)
        bary_beta == RDiv(R(Dot(ap, normal_ac)), R(Dot(ab, normal_ac)))
        bary_gamma == RDiv(R(Dot(ap, normal_ab)), R(Dot(ac, normal_ab)))
        bary_alpha == RSub(RSub(R(1), bary_beta), bary_gamma)
    IN <<bary_alpha, bary_beta, bary_gamma>>

Coords == 0 .. MaxCoord

Pts2D == Coords \X Coords

IdleBary == bary_in = <<>> /\ bary_out = <<>>

IdleRect == rect_in = <<>> /\ rect_out = <<>>

IdleConv ==
    /\ conv_in0 = <<>>
    /\ conv_in = <<>>
    /\ conv_out = <<>>
    /\ conv_pc = "idle"

IdleInterp ==
    /\ mesh2d = [vertices |-> <<>>, faces |-> <<>>]
    /\ nodes_values = <<>>
    /\ points0 = <<>>
    /\ points = <<>>
    /\ face_indexes = <<>>
    /\ interpolated_values = <<>>
    /\ cast_memo = <<>>
    /\ ip_pc = "idle"
    /\ ip_err = "none"

IdleAssign ==
    /\ mesh3d = [nvertices |-> 0, faces |-> <<>>, area_faces |-> <<>>]
    /\ values = <<>>
    /\ variable = ""
    /\ instant = 0
    /\ nodes_arrays = <<>>
    /\ an_pc = "idle"
    /\ an_err = "none"

IdleCorners ==
    /\ bounds = <<>>
    /\ transformer = <<>>
    /\ SW_new = <<>>
    /\ NE_new = <<>>
    /\ hc_pc = "idle"

IdleRun ==
    /\ args = <<>>
    /\ ndt = 0
    /\ pc = "idle"
    /\ err = "none"
    /\ instants = <<>>
    /\ variables = <<>>
    /\ warned = FALSE
    /\ nodes2generate = <<>>
    /\ gen_i = 0
    /\ calls = <<>>
    /\ cache0 = {}
    /\ mode = ""
    /\ x_axis = <<>>
    /\ y_axis = <<>>
    /\ slice_i = 0
    /\ ds = <<>>
    /\ grd = <<>>

InitBary ==
    /\ bary_in \in Pts2D \X Pts2D \X Pts2D \X Pts2D
    /\ bary_out = <<>>
    /\ IdleConv
    /\ IdleRect
    /\ IdleInterp
    /\ IdleAssign
    /\ IdleCorners
    /\ IdleRun

CallBarycentric ==
    /\ bary_in # <<>>
    /\ bary_out = <<>>
    /\ bary_out' = getBarycentricCoord(bary_in[1], bary_in[2], bary_in[3], bary_in[4])
    /\ UNCHANGED <<bary_in, cvvars, rcvars, ipvars, anvars, hcvars, runvars>>

NextBary == CallBarycentric

SpecBary == InitBary /\ [][NextBary]_vars

(* Twice the signed area of triangle (a, b, c); 0 when it is degenerate.   *)
Cross(a, b, c) ==
    (b[1] - a[1]) * (c[2] - a[2]) - (b[2] - a[2]) * (c[1] - a[1])

(* C2: for a non-degenerate triangle and any point of the plane, the result *)
(* (alpha, beta, gamma) has beta = ((p-A).n_AC)/((B-A).n_AC),               *)
(* gamma = ((p-A).n_AB)/((C-A).n_AB) and alpha + beta + gamma = 1, with no  *)
(* clamping to [0,1] (so p = alpha*A + beta*B + gamma*C also outside).       *)
C2_BarycentricSum ==
    (bary_out # <<>> /\ Cross(bary_in[2], bary_in[3], bary_in[4]) # 0) =>
      LET p == bary_in[1]
          A == bary_in[2]
          B == bary_in[3]
          C == bary_in[4]
          nAC == <<A[2] - C[2], C[1] - A[1]>>
          nAB == <<A[2] - B[2], B[1] - A[1]>>
          al == bary_out[1]
          be == bary_out[2]
          ga == bary_out[3]
      IN /\ IsFinite(al) /\ IsFinite(be) /\ IsFinite(ga)
         /\ be[1] * Dot(Minus(B, A), nAC) = be[2] * Dot(Minus(p, A), nAC)
         /\ ga[1] * Dot(Minus(C, A), nAB) = ga[2] * Dot(Minus(p, A), nAB)
         /\ al[1] * be[2] * ga[2] + be[1] * al[2] * ga[2] + ga[1] * al[2] * be[2]
              = al[2] * be[2] * ga[2]
         /\ \A k \in 1 .. 2 :
              al[1] * be[2] * ga[2] * A[k] + be[1] * al[2] * ga[2] * B[k]
                + ga[1] * al[2] * be[2] * C[k] = al[2] * be[2] * ga[2] * p[k]

(* A point outside a non-degenerate triangle gets a coordinate outside [0,1]. *)
C2_Witness ==
    /\ bary_out # <<>>
    /\ Cross(bary_in[2], bary_in[3], bary_in[4]) # 0
    /\ bary_out[2][1] < 0
    /\ bary_out[1][1] > bary_out[1][2]


(* ---------------------------------------------------------------------- *)
(* interpolate_pointCloud                                                  *)
(* ---------------------------------------------------------------------- *)
(* Python indexing of a list with a 0-based index; a negative index counts *)
(* from the end.                                                           *)
PyIndex(seq, i) == IF i < 0 THEN seq[Len(seq) + i + 1] ELSE seq[i + 1]

FaceIds(mesh) == 0 .. Len(mesh.faces) - 1

FaceVertex(mesh, f, k) == PyIndex(mesh.vertices, PyIndex(mesh.faces, f)[k])

EdgeSides(mesh, f, p) ==
    LET a == FaceVertex(mesh, f, 1)
        b == FaceVertex(mesh, f, 2)
        c == FaceVertex(mesh, f, 3)
    IN <<Cross(a, b, p), Cross(b, c, p), Cross(c, a, p)>>

StrictlyInside(mesh, f, p) ==
    LET d == EdgeSides(mesh, f, p)
    IN \/ \A k \in 1 .. 3 : d[k] > 0
       \/ \A k \in 1 .. 3 : d[k] < 0

OnOrInside(mesh, f, p) ==
    LET d == EdgeSides(mesh, f, p)
    IN ~ ((\E k \in 1 .. 3 : d[k] > 0) /\ (\E k \in 1 .. 3 : d[k] < 0))

(* rays.intersects_first for one ray from p in direction (0, 0, 1): the    *)
(* triangle whose interior the ray crosses; a ray through an edge or a     *)
(* vertex may be reported on any triangle it touches or be missed (-1);    *)
(* a ray beside the mesh, or starting above it, is missed.                 *)
intersects_first(mesh, p) ==
    IF p[3] >= 0 THEN {-1}
    ELSE IF \E f \in FaceIds(mesh) : StrictlyInside(mesh, f, p)
         THEN {f \in FaceIds(mesh) : StrictlyInside(mesh, f, p)}
         ELSE {f \in FaceIds(mesh) : OnOrInside(mesh, f, p)} \cup {-1}

(* point_temp += eps on a row of the array (lines 200-201)                 *)
Perturb(p) == <<p[1] + eps, p[2] + eps, p[3] + eps>>

(* The loop with the missed entries skipped instead of interpolated.       *)
RECURSIVE InterpLoop_SkipMissed(_, _, _, _, _, _, _)
InterpLoop_SkipMissed(pts, mesh, nv, fidx, index, c, acc) ==
    IF index >= Len(fidx) THEN acc
    ELSE IF PyIndex(fidx, index) = -1
    THEN InterpLoop_SkipMissed(pts, mesh, nv, fidx, index + 1, c, acc)
    ELSE LET face_nodes == PyIndex(mesh.faces, PyIndex(fidx, index))
             bar_coord == getBarycentricCoord(PyIndex(pts, c),
                              PyIndex(mesh.vertices, face_nodes[1]),
                              PyIndex(mesh.vertices, face_nodes[2]),
                              PyIndex(mesh.vertices, face_nodes[3]))
             interpolated_value ==
                 RAdd(RAdd(RMul(bar_coord[1], PyIndex(nv, face_nodes[1])),
                           RMul(bar_coord[2], PyIndex(nv, face_nodes[2]))),
                      RMul(bar_coord[3], PyIndex(nv, face_nodes[3])))
         IN InterpLoop_SkipMissed(pts, mesh, nv, fidx, index + 1, c + 1,
                                  Append(acc, interpolated_value))

(* The loop of lines 206-224, index and c both counting from 0.            *)
RECURSIVE InterpLoop(_, _, _, _, _, _, _)
InterpLoop(pts, mesh, nv, fidx, index, c, acc) ==
    IF index >= Len(fidx) THEN acc
    ELSE LET face_nodes == PyIndex(mesh.faces, PyIndex(fidx, index))
             node0_index == face_nodes[1]
             node1_index == face_nodes[2]
             node2_index == face_nodes[3]
             bar_coord == getBarycentricCoord(PyIndex(pts, c),
                              PyIndex(mesh.vertices, node0_index),
                              PyIndex(mesh.vertices, node1_index),
                              PyIndex(mesh.vertices, node2_index))
             v0 == PyIndex(nv, node0_index)
             v1 == PyIndex(nv, node1_index)
             v2 == PyIndex(nv, node2_index)
             interpolated_value ==
                 RAdd(RAdd(RMul(bar_coord[1], v0), RMul(bar_coord[2], v1)),
                      RMul(bar_coord[3], v2))
         IN InterpLoop(pts, mesh, nv, fidx, index + 1, c + 1,
                       Append(acc, interpolated_value))

(* The ray caster is a function of the ray: casting the same ray at the    *)
(* same mesh again gives the same answer.  memo holds the answers seen so  *)
(* far; an oracle extends it to the rays in rays_needed, each answer one   *)
(* that intersects_first allows.                                           *)
RECURSIVE Oracles(_, _, _)
Oracles(mesh, memo, rays_needed) ==
    IF rays_needed = {} THEN {<<>>}
    ELSE LET p == CHOOSE q \in rays_needed : TRUE
             answers == IF p \in DOMAIN memo THEN {memo[p]}
                        ELSE intersects_first(mesh, p)
         IN {(p :> a) @@ o : a \in answers,
                             o \in Oracles(mesh, memo, rays_needed \ {p})}

(* The rays of the first cast (line 193): every row.                       *)
FirstRays(pts) == {pts[i] : i \in 1 .. Len(pts)}

(* The retries going on once more, by eps again, after the retry.          *)
RetryRays_Again(pts, oracle) ==
    LET missed == {pts[i] : i \in {k \in 1 .. Len(pts) : oracle[pts[k]] = -1}}
    IN {Perturb(p) : p \in missed} \cup {Perturb(Perturb(p)) : p \in missed}

(* The rays of the retries (line 202): the missed rows, moved by eps.      *)
RetryRays(pts, oracle) ==
    {Perturb(pts[i]) : i \in {k \in 1 .. Len(pts) : oracle[pts[k]] = -1}}

(* The result of the first ray cast of line 193.                           *)
FirstCast(pts, oracle) == [i \in 1 .. Len(pts) |-> oracle[pts[i]]]

(* The face indexes after the retries of lines 197-203.                    *)
RetryCast(pts, oracle) ==
    [i \in 1 .. Len(pts) |->
        IF oracle[pts[i]] = -1 THEN oracle[Perturb(pts[i])] ELSE oracle[pts[i]]]

(* The caller's array after lines 197-203: missed rows moved by eps.       *)
PointsAfter(pts, first) ==
    [i \in 1 .. Len(pts) |-> IF first[i] = -1 THEN Perturb(pts[i]) ELSE pts[i]]

(* np.delete(points, 2, 1)                                                 *)
DropZ(pts) == [i \in 1 .. Len(pts) |-> <<pts[i][1], pts[i][2]>>]

(* Lines 205-226 for given ray cast results: the returned array.           *)
InterpOutcome(pts, mesh, nv, first, fidx) ==
    InterpLoop(DropZ(PointsAfter(pts, first)), mesh, nv, fidx, 0, 0, <<>>)

(* interpolate_pointCloud when the ray caster answers as oracle says.     *)
InterpResult(pts, mesh, nv, oracle) ==
    [points |-> PointsAfter(pts, FirstCast(pts, oracle)),
     face_indexes |-> RetryCast(pts, oracle),
     interpolated_values |->
         InterpOutcome(pts, mesh, nv, FirstCast(pts, oracle), RetryCast(pts, oracle)),
     cast_memo |-> oracle]

(* Every result interpolate_pointCloud can return, with the ray casts      *)
(* known afterwards.                                                       *)
interpolate_pointCloud(pts, mesh, nv, memo) ==
    UNION {{InterpResult(pts, mesh, nv, o2 @@ o1 @@ memo) :
               o2 \in Oracles(mesh, o1 @@ memo, RetryRays(pts, o1))} :
           o1 \in Oracles(mesh, memo, FirstRays(pts))}

(* The square of side MeshSide cut into two triangles along a diagonal,    *)
(* with the two triangles stored in either order.                          *)
SquareVertices ==
    <<<<0, 0>>, <<MeshSide, 0>>, <<0, MeshSide>>, <<MeshSide, MeshSide>>>>

Meshes ==
    {[vertices |-> SquareVertices, faces |-> <<<<0, 1, 2>>, <<1, 3, 2>>>>],
     [vertices |-> SquareVertices, faces |-> <<<<1, 3, 2>>, <<0, 1, 2>>>>]}

NodeValueChoices ==
    {<<R(0), R(0), R(0), R(10)>>, <<R(4), R(0), R(8), R(2)>>}

QueryCoords == -1 .. MeshSide + 1

QueryPts == {<<x, y, ZStart>> : x \in QueryCoords, y \in QueryCoords}

RECURSIVE SeqsUpTo(_, _)
SeqsUpTo(S, n) ==
    IF n = 0 THEN {<<>>}
    ELSE LET shorter == SeqsUpTo(S, n - 1)
         IN shorter \cup {Append(q, e) : q \in {t \in shorter : Len(t) = n - 1}, e \in S}

InitInterp ==
    /\ mesh2d \in Meshes
    /\ nodes_values \in NodeValueChoices
    /\ points0 \in SeqsUpTo(QueryPts, MaxPts) \ {<<>>}
    /\ points = points0
    /\ face_indexes = <<>>
    /\ interpolated_values = <<>>
    /\ cast_memo = <<>>
    /\ ip_pc = "ready"
    /\ ip_err = "none"
    /\ IdleBary
    /\ IdleConv
    /\ IdleRect
    /\ IdleAssign
    /\ IdleCorners
    /\ IdleRun

CallInterpolate ==
    /\ ip_pc = "ready"
    /\ \E res \in interpolate_pointCloud(points, mesh2d, nodes_values, cast_memo) :
         /\ points' = res.points
         /\ face_indexes' = res.face_indexes
         /\ interpolated_values' = res.interpolated_values
         /\ cast_memo' = res.cast_memo
    /\ ip_pc' = "done"
    /\ UNCHANGED <<mesh2d, nodes_values, points0, ip_err, bary_in, bary_out, cvvars, rcvars,
                   anvars, hcvars, runvars>>

NextInterp == CallInterpolate

SpecInterp == InitInterp /\ [][NextInterp]_vars

(* Linear interpolation over triangle (a, b, c) by ratios of signed areas. *)
AreaInterp(p, a, b, c, va, vb, vc) ==
    RDiv(RAdd(RAdd(RMul(R(Cross(p, b, c)), va), RMul(R(Cross(a, p, c)), vb)),
              RMul(R(Cross(a, b, p)), vc)),
         R(Cross(a, b, c)))

QueryIds == 1 .. Len(points0)

XY(p) == <<p[1], p[2]>>

(* C1: a query point that no ray cast locates, neither the first nor the    *)
(* retry after the perturbation, is failed with PointOutsideMeshError:      *)
(* index -1 is not used on the face array and no value is returned for it.  *)
C1_MissedPointFails ==
    ip_pc = "done" =>
        \A i \in QueryIds :
            face_indexes[i] = -1 =>
                /\ ip_err = "PointOutsideMeshError"
                /\ Len(interpolated_values) < i

(* C3: a query point that is a vertex of the mesh gets the value stored     *)
(* for that vertex (in the two-triangle mesh with node values [0,0,0,10]    *)
(* the four corners give 0, 0, 0 and 10).                                   *)
C3_IdentityAtVertices ==
    ip_pc = "done" =>
        \A i \in QueryIds :
            \A v \in 1 .. Len(mesh2d.vertices) :
                XY(points0[i]) = mesh2d.vertices[v] =>
                    interpolated_values[i] = nodes_values[v]

(* C6: the returned array has one entry per query point, and entry i is the *)
(* linear interpolation at row i of the point array (query point i, moved   *)
(* by eps when its first ray cast missed) over the triangle found for row   *)
(* i; no entry is dropped, repeated or shifted by the retries.              *)
C6_IndexCorrespondence ==
    ip_pc = "done" =>
        /\ Len(interpolated_values) = Len(points0)
        /\ Len(face_indexes) = Len(points0)
        /\ \A i \in QueryIds :
             LET face == PyIndex(mesh2d.faces, face_indexes[i])
                 a == PyIndex(mesh2d.vertices, face[1])
                 b == PyIndex(mesh2d.vertices, face[2])
                 c == PyIndex(mesh2d.vertices, face[3])
             IN /\ points[i] \in {points0[i], Perturb(points0[i])}
                /\ face_indexes[i] # -1 =>
                       OnOrInside(mesh2d, face_indexes[i], points[i])
                /\ interpolated_values[i] =
                       AreaInterp(XY(points[i]), a, b, c,
                                  PyIndex(nodes_values, face[1]),
                                  PyIndex(nodes_values, face[2]),
                                  PyIndex(nodes_values, face[3]))

(* Two query points, the first retried and found, the second found at once, *)
(* with different values.                                                   *)
C6_Witness ==
    /\ ip_pc = "done"
    /\ Len(points0) = 2
    /\ points[1] # points0[1]
    /\ points[2] = points0[2]
    /\ face_indexes[1] # -1
    /\ face_indexes[2] # -1
    /\ interpolated_values[1] # interpolated_values[2]


(* ---------------------------------------------------------------------- *)
(* assign_nodes_values                                                     *)
(* ---------------------------------------------------------------------- *)
Max(S) == CHOOSE m \in S : \A e \in S : e <= m

Min(S) == CHOOSE m \in S : \A e \in S : m <= e

RECURSIVE SortedSeq(_)
SortedSeq(S) ==
    IF S = {} THEN <<>> ELSE <<Min(S)>> \o SortedSeq(S \ {Min(S)})

IncidentFaces(mesh, i) ==
    {f \in 0 .. Len(mesh.faces) - 1 :
        \E k \in 1 .. 3 : PyIndex(mesh.faces, f)[k] = i}

(* trimesh's vertex_faces: one row per vertex holding the indexes of the   *)
(* faces the vertex belongs to, padded with -1 to the longest row.         *)
vertex_faces(mesh) ==
    LET width == Max({Cardinality(IncidentFaces(mesh, i)) :
                         i \in 0 .. mesh.nvertices - 1} \cup {0})
    IN [r \in 1 .. mesh.nvertices |->
           LET own == SortedSeq(IncidentFaces(mesh, r - 1))
           IN own \o [k \in 1 .. width - Len(own) |-> -1]]

(* The row kept as it is, padding included.                                *)
KeepPadding(row) == row

(* np.delete(shared_faces, np.where(shared_faces == -1))                   *)
RemovePadding(row) == SelectSeq(row, LAMBDA f : f # -1)

(* Whether values[instant] exists (a negative instant counts from the end). *)
InstantInRange(vals, t) == -Len(vals) <= t /\ t < Len(vals)

(* The loop of lines 163-167: <<value_acum, total_shared_area>>.           *)
RECURSIVE FaceLoop(_, _, _, _, _)
FaceLoop(shared_faces, area_triangles, vals_t, j, acc) ==
    IF j >= Len(shared_faces) THEN acc
    ELSE LET area_j == R(PyIndex(area_triangles, PyIndex(shared_faces, j)))
             v_j == R(PyIndex(vals_t, PyIndex(shared_faces, j)))
         IN FaceLoop(shared_faces, area_triangles, vals_t, j + 1,
                     <<RAdd(acc[1], RMul(v_j, area_j)), RAdd(acc[2], area_j)>>)

(* The loop of lines 158-170.  With no shared face value_acum and          *)
(* total_shared_area are still the Python floats 0.0 of lines 161-162, and *)
(* their quotient raises ZeroDivisionError; otherwise they are numpy       *)
(* floats, whose quotient is computed even for a zero divisor.  Reading    *)
(* values[instant] for an instant out of range raises IndexError.          *)
RECURSIVE VertexLoop(_, _, _, _, _)
VertexLoop(mesh, vals, t, i, nodes_value) ==
    IF i >= mesh.nvertices THEN [err |-> "none", nodes_value |-> nodes_value]
    ELSE LET shared_faces == RemovePadding(PyIndex(vertex_faces(mesh), i))
         IN IF Len(shared_faces) = 0
            THEN [err |-> "ZeroDivisionError", nodes_value |-> nodes_value]
            ELSE IF ~ InstantInRange(vals, t)
            THEN [err |-> "IndexError", nodes_value |-> nodes_value]
            ELSE LET sums == FaceLoop(shared_faces, mesh.area_faces,
                                      PyIndex(vals, t), 0, <<R(0), R(0)>>)
                     final_node_value == RDiv(sums[1], sums[2])
                 IN VertexLoop(mesh, vals, t, i + 1,
                               Append(nodes_value, final_node_value))

(* "nodes_arrays/node_values_{}_timestep{}".format(variable, instant), to  *)
(* which np.save appends ".npy".                                           *)
SavedName(var, t) ==
    ("node_values_" \o var \o "_timestep" \o ToString(t)) \o ".npy"

(* assign_nodes_values: the exception raised and the directory afterwards.  *)
assign_nodes_values(dir, mesh, vals, var, t) ==
    LET run == VertexLoop(mesh, vals, t, 0, <<>>)
    IN IF run.err # "none"
       THEN [err |-> run.err, nodes_arrays |-> dir]
       ELSE [err |-> "none",
             nodes_arrays |->
                 [n \in (DOMAIN dir) \cup {SavedName(var, t)} |->
                     IF n = SavedName(var, t) THEN run.nodes_value
                     ELSE dir[n]]]

(* Two triangles sharing an edge; the same with a fifth vertex that no     *)
(* face uses; one triangle whose first vertex no face uses.                *)
FaceLists ==
    {[nvertices |-> 4, faces |-> <<<<0, 1, 2>>, <<1, 3, 2>>>>],
     [nvertices |-> 5, faces |-> <<<<0, 1, 2>>, <<1, 3, 2>>>>],
     [nvertices |-> 4, faces |-> <<<<1, 2, 3>>>>]}

Meshes3D ==
    UNION {{[nvertices |-> m.nvertices, faces |-> m.faces, area_faces |-> a] :
               a \in [1 .. Len(m.faces) -> 0 .. MaxArea]} : m \in FaceLists}

SampleValues == {10, 20}

FieldData(nfaces) ==
    UNION {[1 .. n -> [1 .. nfaces -> SampleValues]] : n \in 1 .. MaxNdt}

InitAssign ==
    /\ mesh3d \in Meshes3D
    /\ values \in FieldData(Len(mesh3d.faces))
    /\ variable \in {"u1", "u3"}
    /\ instant \in -1 .. MaxNdt
    /\ nodes_arrays = <<>>
    /\ an_pc = "ready"
    /\ an_err = "none"
    /\ IdleBary
    /\ IdleConv
    /\ IdleRect
    /\ IdleInterp
    /\ IdleCorners
    /\ IdleRun

CallAssignNodesValues ==
    /\ an_pc = "ready"
    /\ LET res == assign_nodes_values(nodes_arrays, mesh3d, values, variable, instant)
       IN /\ an_err' = res.err
          /\ nodes_arrays' = res.nodes_arrays
    /\ an_pc' = "done"
    /\ UNCHANGED <<mesh3d, values, variable, instant, bary_in, bary_out, cvvars, rcvars, ipvars,
                   hcvars, runvars>>

NextAssign == CallAssignNodesValues

SpecAssign == InitAssign /\ [][NextAssign]_vars

RECURSIVE SumOver(_, _)
SumOver(S, w) ==
    IF S = {} THEN 0
    ELSE LET f == CHOOSE e \in S : TRUE IN w[f] + SumOver(S \ {f}, w)

(* Sum of area(f) over the faces incident to vertex v (0-based).            *)
IncidentArea(mesh, v) ==
    SumOver(IncidentFaces(mesh, v),
            [f \in 0 .. Len(mesh.faces) - 1 |-> mesh.area_faces[f + 1]])

(* Sum of area(f) * sample[t][f] over the faces incident to vertex v.       *)
IncidentWeighted(mesh, vals_t, v) ==
    SumOver(IncidentFaces(mesh, v),
            [f \in 0 .. Len(mesh.faces) - 1 |->
                mesh.area_faces[f + 1] * vals_t[f + 1]])

SavedArray == nodes_arrays[SavedName(variable, instant)]

(* C4: in the saved array the value of every vertex with incident faces of  *)
(* positive total area is sum(area(f) * sample[instant][f]) / sum(area(f))  *)
(* over its incident faces, each face counted once and the -1 padding of    *)
(* vertex_faces counted not at all.                                         *)
C4_AreaWeightedMean ==
    (an_pc = "done" /\ an_err = "none") =>
        /\ SavedName(variable, instant) \in DOMAIN nodes_arrays
        /\ Len(SavedArray) = mesh3d.nvertices
        /\ \A v \in 0 .. mesh3d.nvertices - 1 :
             IncidentArea(mesh3d, v) > 0 =>
                 /\ IsFinite(SavedArray[v + 1])
                 /\ SavedArray[v + 1][1] * IncidentArea(mesh3d, v) =
                      SavedArray[v + 1][2] *
                        IncidentWeighted(mesh3d, PyIndex(values, instant), v)

(* Two unit-area faces with samples 10 and 20 meet in a vertex, which gets  *)
(* 15, while another row of vertex_faces is padded with -1.                 *)
C4_Witness ==
    /\ an_pc = "done"
    /\ an_err = "none"
    /\ mesh3d.area_faces = <<1, 1>>
    /\ PyIndex(values, instant) = <<10, 20>>
    /\ vertex_faces(mesh3d)[1] = <<0, -1>>
    /\ vertex_faces(mesh3d)[2] = <<0, 1>>
    /\ SavedArray[2] = R(15)
    /\ SavedArray[1] = R(10)

(* C5: a vertex with no incident faces (total incident area zero) makes     *)
(* assign_nodes_values fail with DegenerateMeshError, and nothing is saved. *)
C5_DegenerateMeshError ==
    (an_pc = "done" /\ \E v \in 0 .. mesh3d.nvertices - 1 :
                           IncidentArea(mesh3d, v) = 0) =>
        /\ an_err = "DegenerateMeshError"
        /\ nodes_arrays = <<>>


(* ---------------------------------------------------------------------- *)
(* hysea_mesh_corners                                                      *)
(* ---------------------------------------------------------------------- *)
(* transformer.transform: a coordinate transform that is not affine.  The  *)
(* x of the image grows with x and is shifted by tr.a[y], the y of the     *)
(* image grows with y and is shifted by tr.c[x]; the shifts are smaller    *)
(* than the stretch, so the image of the rectangle keeps its orientation.  *)
Transform(tr, x, y) ==
    <<(MaxShift + 1) * x + tr.a[y], (MaxShift + 1) * y + tr.c[x]>>

(* np.arange(lo, hi, 1) for integers: lo, lo + 1, ... below hi.            *)
Arange(lo, hi) == [k \in 1 .. hi - lo |-> lo + k - 1]

(* Lines 296-323: <<SW_new, NE_new>>.                                      *)
hysea_mesh_corners(bnds, tr) ==
    LET sw == bnds[1]
        ne == bnds[2]
        x == Arange(sw[1], ne[1])
        y == Arange(sw[2], ne[2])
        ymin == Max({Transform(tr, x[k], sw[2])[2] : k \in 1 .. Len(x)})
        ymax == Min({Transform(tr, x[k], ne[2])[2] : k \in 1 .. Len(x)})
        xmin == Max({Transform(tr, sw[1], y[k])[1] : k \in 1 .. Len(y)})
        xmax == Min({Transform(tr, ne[1], y[k])[1] : k \in 1 .. Len(y)})
    IN <<<<xmin, ymin>>, <<xmax, ymax>>>>

Transformers(bnds) ==
    [a : [bnds[1][2] .. bnds[2][2] -> 0 .. MaxShift],
     c : [bnds[1][1] .. bnds[2][1] -> 0 .. MaxShift]]

InitCorners ==
    /\ bounds \in {<<<<0, 0>>, <<w, h>>>> : w \in 1 .. MaxExtent, h \in 1 .. MaxExtent}
    /\ transformer \in Transformers(bounds)
    /\ SW_new = <<>>
    /\ NE_new = <<>>
    /\ hc_pc = "ready"
    /\ IdleBary
    /\ IdleConv
    /\ IdleRect
    /\ IdleInterp
    /\ IdleAssign
    /\ IdleRun

CallHyseaMeshCorners ==
    /\ hc_pc = "ready"
    /\ SW_new' = hysea_mesh_corners(bounds, transformer)[1]
    /\ NE_new' = hysea_mesh_corners(bounds, transformer)[2]
    /\ hc_pc' = "done"
    /\ UNCHANGED <<bounds, transformer, bary_in, bary_out, cvvars, rcvars, ipvars, anvars,
                   runvars>>

NextCorners == CallHyseaMeshCorners

SpecCorners == InitCorners /\ [][NextCorners]_vars

(* The points at unit steps on an edge of the bounds, both corners included. *)
EdgeXs == bounds[1][1] .. bounds[2][1]

EdgeYs == bounds[1][2] .. bounds[2][2]

(* C10: the returned corners are the conservative extents over the four     *)
(* edges sampled at unit steps from corner to corner: xmin is the largest   *)
(* image x on the left edge, xmax the smallest on the right edge, ymin the  *)
(* largest image y on the bottom edge and ymax the smallest on the top      *)
(* edge, so that no image of an edge point is strictly inside the result.   *)
C10_ConservativeCorners ==
    hc_pc = "done" =>
        /\ SW_new[1] = Max({Transform(transformer, bounds[1][1], y)[1] : y \in EdgeYs})
        /\ NE_new[1] = Min({Transform(transformer, bounds[2][1], y)[1] : y \in EdgeYs})
        /\ SW_new[2] = Max({Transform(transformer, x, bounds[1][2])[2] : x \in EdgeXs})
        /\ NE_new[2] = Min({Transform(transformer, x, bounds[2][2])[2] : x \in EdgeXs})
        /\ \A x \in EdgeXs, y \in EdgeYs :
             (x \in {bounds[1][1], bounds[2][1]} \/ y \in {bounds[1][2], bounds[2][2]}) =>
                 LET q == Transform(transformer, x, y)
                 IN ~ (/\ SW_new[1] < q[1] /\ q[1] < NE_new[1]
                       /\ SW_new[2] < q[2] /\ q[2] < NE_new[2])


(* ---------------------------------------------------------------------- *)
(* Grid sampling: get_values_inside_rectangle, generate_grd, seissol2hysea *)
(* ---------------------------------------------------------------------- *)
(* None is held as the empty tuple; an optional number n as <<n>>.         *)
None == <<>>

(* range(0, n)                                                             *)
Range0(n) == [k \in 1 .. n |-> k - 1]

(* np.arange(lo, hi, step) for integers, step > 0.                         *)
ArangeStep(lo, hi, step) ==
    IF hi <= lo THEN <<>>
    ELSE [k \in 1 .. ((hi - lo - 1) \div step) + 1 |-> lo + (k - 1) * step]

(* A resolution of None makes np.arange use its default step, 1 (one       *)
(* degree, which is -ZStart in units of eps).                              *)
StepOf(resolution) == IF resolution = None THEN -ZStart ELSE resolution[1]

(* list(itertools.product(xs, ys)): the first factor is the outer loop.    *)
Product(xs, ys) ==
    [k \in 1 .. Len(xs) * Len(ys) |->
        <<xs[((k - 1) \div Len(ys)) + 1], ys[((k - 1) % Len(ys)) + 1]>>]

(* np.c_[points, (-1) * np.ones(len(points))]                              *)
AddZ(pts) == [k \in 1 .. Len(pts) |-> <<pts[k][1], pts[k][2], ZStart>>]

(* bisect.bisect_left(a, v) on a 0-based list, as the library searches.    *)
RECURSIVE BisectLoop(_, _, _, _)
BisectLoop(a, v, lo, hi) ==
    IF lo >= hi THEN lo
    ELSE LET mid == (lo + hi) \div 2
         IN IF PyIndex(a, mid) < v THEN BisectLoop(a, v, mid + 1, hi)
            ELSE BisectLoop(a, v, lo, mid)

(* bisect.bisect_right in place of bisect_left: entries equal to v are     *)
(* passed over.                                                            *)
RECURSIVE BisectRightLoop(_, _, _, _)
BisectRightLoop(a, v, lo, hi) ==
    IF lo >= hi THEN lo
    ELSE LET mid == (lo + hi) \div 2
         IN IF v < PyIndex(a, mid) THEN BisectRightLoop(a, v, lo, mid)
            ELSE BisectRightLoop(a, v, mid + 1, hi)

bisect_right(a, v) == BisectRightLoop(a, v, 0, Len(a))

bisect_left(a, v) == BisectLoop(a, v, 0, Len(a))

(* a[lo:hi] for 0 <= lo, hi <= len(a)                                      *)
PySlice(a, lo, hi) == IF hi <= lo THEN <<>> ELSE SubSeq(a, lo + 1, hi)

(* Lines 337-343: <<x, y>>.                                                *)
get_values_inside_rectangle(xs, ys, sw, ne) ==
    <<PySlice(xs, bisect_left(xs, sw[1]), bisect_left(xs, ne[1])),
      PySlice(ys, bisect_left(ys, sw[2]), bisect_left(ys, ne[2]))>>

(* a.reshape(n1, n2): n1 rows of n2 entries, filled row by row.            *)
Reshape(flat, n1, n2) ==
    [i \in 1 .. n1 |-> [j \in 1 .. n2 |-> flat[(i - 1) * n2 + j]]]

(* m.T for an n1 x n2 array.                                               *)
Transposed(m, n1, n2) == [j \in 1 .. n2 |-> [i \in 1 .. n1 |-> m[i][j]]]

(* interpolated_values.reshape(Ncolumn, Nrow) alone, without the .T.       *)
GridOf_NoTranspose(flat, Ncolumn, Nrow) == Reshape(flat, Nrow, Ncolumn)

(* interpolated_values.reshape(Ncolumn, Nrow).T  (lines 252, 506, 522)     *)
GridOf(flat, Ncolumn, Nrow) ==
    Transposed(Reshape(flat, Ncolumn, Nrow), Ncolumn, Nrow)

(* The conversion with every image y taken at the x of the first vertex.   *)
mesh2dCRSconversion_FirstColumn(mesh, tr) ==
    [vertices |-> [k \in 1 .. Len(mesh.vertices) |->
                      <<Transform(tr, mesh.vertices[k][1], mesh.vertices[k][2])[1],
                        Transform(tr, mesh.vertices[1][1], mesh.vertices[k][2])[2],
                        0>>],
     faces |-> mesh.faces]

(* Lines 126-138: the x and y of the vertices transformed one by one       *)
(* (lines 127-134), z = 0 appended (line 134), the faces those of the      *)
(* input (line 136).                                                       *)
mesh2dCRSconversion(mesh, tr) ==
    [vertices |-> [k \in 1 .. Len(mesh.vertices) |->
                      <<Transform(tr, mesh.vertices[k][1], mesh.vertices[k][2])[1],
                        Transform(tr, mesh.vertices[k][1], mesh.vertices[k][2])[2],
                        0>>],
     faces |-> mesh.faces]

(* The mesh as lines 215-217 read it: the last component of each vertex    *)
(* removed.                                                                *)
RemoveLastComponent(mesh) ==
    [vertices |-> [k \in 1 .. Len(mesh.vertices) |->
                      <<mesh.vertices[k][1], mesh.vertices[k][2]>>],
     faces |-> mesh.faces]

(* mesh.bounds: the lower left and upper right corner of the vertices.     *)
BoundsOf(mesh) ==
    LET xs == {mesh.vertices[k][1] : k \in 1 .. Len(mesh.vertices)}
        ys == {mesh.vertices[k][2] : k \in 1 .. Len(mesh.vertices)}
    IN <<<<Min(xs), Min(ys)>>, <<Max(xs), Max(ys)>>>>

(* variables of lines 399-402                                              *)
VariablesOf(only_vertical) ==
    IF only_vertical THEN <<"u3">> ELSE <<"u1", "u2", "u3">>

(* The name probed and loaded at lines 412-413, 503 and 519.               *)
LoadName(var, t) ==
    "node_values_" \o var \o "_timestep" \o ToString(t) \o ".npy"

(* list(itertools.product(variables, instants)) filtered by lines 412-414. *)
Nodes2Generate(dir, vars_list, insts) ==
    SelectSeq(Product(vars_list, insts),
              LAMBDA pr : LoadName(pr[1], pr[2]) \notin DOMAIN dir)

(* The (variable, instant) of each slice, in the order of lines 501-523.   *)
SliceOrder(vars_list, insts) ==
    [k \in 1 .. Len(insts) * Len(vars_list) |->
        <<Product(insts, vars_list)[k][2], Product(insts, vars_list)[k][1]>>]

(* raster_file.split(".")[-1]; the name is held as its parts between dots. *)
ExtensionOf(raster) == raster.name[Len(raster.name)]

(* Lines 443-451: <<array>> of the last variable of the file whose name is *)
(* in names, None when there is none.                                      *)
RECURSIVE LastNamed(_, _, _)
LastNamed(file_vars, names, found) ==
    IF file_vars = <<>> THEN found
    ELSE LastNamed(Tail(file_vars), names,
                   IF Head(file_vars)[1] \in names THEN <<Head(file_vars)[2]>>
                   ELSE found)

Reversed(q) == [k \in 1 .. Len(q) |-> q[Len(q) + 1 - k]]

(* Lines 432-436: the axes from points_given.                              *)
AxesFromPoints(a, sw, ne) ==
    LET xy == get_values_inside_rectangle(a.points_given[1],
                                          a.points_given[2], sw, ne)
    IN [mode |-> "points_given", err |-> "none", x |-> xy[1], y |-> xy[2]]

(* Lines 437-466: the axes from the raster file.  An axis never assigned   *)
(* raises UnboundLocalError at its first use.                              *)
AxesFromRaster(a, sw, ne) ==
    IF ExtensionOf(a.raster_file) \in {"nc", "grd"}
    THEN LET xs == LastNamed(a.raster_file.vars, {"lon", "x", "longitude"}, None)
             ys == LastNamed(a.raster_file.vars, {"lat", "y", "latitude"}, None)
         IN IF xs = None \/ ys = None
            THEN [mode |-> "raster_file", err |-> "UnboundLocalError",
                  x |-> <<>>, y |-> <<>>]
            ELSE LET xy == get_values_inside_rectangle(xs[1], ys[1], sw, ne)
                 IN [mode |-> "raster_file", err |-> "none",
                     x |-> xy[1], y |-> xy[2]]
    ELSE IF ExtensionOf(a.raster_file) = "tif"
    THEN LET xy == get_values_inside_rectangle(a.raster_file.xs0,
                       Reversed(a.raster_file.ys_column), sw, ne)
         IN [mode |-> "raster_file", err |-> "none", x |-> xy[1], y |-> xy[2]]
    ELSE [mode |-> "raster_file", err |-> "UnboundLocalError",
          x |-> <<>>, y |-> <<>>]

(* Lines 468-473: the axes from the resolutions.                           *)
AxesFromResolution(a, sw, ne) ==
    [mode |-> "resolution", err |-> "none",
     x |-> ArangeStep(sw[1], ne[1], StepOf(a.outx_resolution)),
     y |-> ArangeStep(sw[2], ne[2], StepOf(a.outy_resolution))]

(* The selection with the raster file looked at before points_given.       *)
ChooseAxes_RasterFirst(a, sw, ne) ==
    IF a.raster_file.name # None THEN AxesFromRaster(a, sw, ne)
    ELSE IF a.points_given # None THEN AxesFromPoints(a, sw, ne)
    ELSE AxesFromResolution(a, sw, ne)

(* Lines 431-473: [mode, err, x, y].                                       *)
ChooseAxes(a, sw, ne) ==
    IF a.points_given # None THEN AxesFromPoints(a, sw, ne)
    ELSE IF a.raster_file.name # None THEN AxesFromRaster(a, sw, ne)
    ELSE AxesFromResolution(a, sw, ne)


(* ---------------------------------------------------------------------- *)
(* The runs: seissol2hysea and generate_bathymetry                         *)
(* ---------------------------------------------------------------------- *)
(* The SeisSol output of the runs: the square mesh, and samples that       *)
(* differ from face to face, step to step and variable to variable.        *)
SourceMesh2d ==
    [vertices |-> SquareVertices, faces |-> <<<<0, 1, 2>>, <<1, 3, 2>>>>]

SourceMesh3d ==
    [nvertices |-> 4, faces |-> SourceMesh2d.faces, area_faces |-> <<1, 2>>]

(* sx.ReadData(var)                                                        *)
ReadData(var, n) ==
    LET no == CASE var = "u1" -> 1 [] var = "u2" -> 2 [] OTHER -> 3
    IN [t \in 1 .. n |-> [f \in 1 .. 2 |-> 10 * no + 4 * t + 2 * f]]

(* mesh3d.vertices[:, 2], the bathymetry of generate_bathymetry            *)
Bathymetry == <<R(0), R(0), R(0), R(10)>>

(* The undistorted transform, and one that lifts the left edge.            *)
RunTransformers ==
    {tr \in Transformers(BoundsOf(SourceMesh2d)) :
        /\ \A k \in DOMAIN tr.a : tr.a[k] = 0
        /\ \A k \in DOMAIN tr.c : k # 0 => tr.c[k] = 0}

InstantChoices == {<<>>, <<0>>, <<1, 0>>, <<0, 0>>, <<MaxNdt>>}

PointsGivenChoices == {None, <<<<-1, 0, 1, 3, 6>>, <<1, 2, 5>>>>}

NoRaster == [name |-> None, vars |-> <<>>, xs0 |-> <<>>, ys_column |-> <<>>]

RasterChoices ==
    {NoRaster,
     [name |-> <<"gebco", "nc">>,
      vars |-> <<<<"lon", <<1, 3>>>>, <<"z", <<7>>>>, <<"lat", <<2, 3>>>>>>,
      xs0 |-> <<>>, ys_column |-> <<>>],
     [name |-> <<"gebco450m", "tif">>, vars |-> <<>>,
      xs0 |-> <<1, 2, 3>>, ys_column |-> <<3, 2>>],
     [name |-> <<"points", "txt">>, vars |-> <<>>, xs0 |-> <<>>, ys_column |-> <<>>]}

(* No resolution, or the one that lays three columns and two rows over the *)
(* rectangle of hysea_mesh_corners.                                        *)
ResolutionChoices(tr) ==
    LET c == hysea_mesh_corners(BoundsOf(SourceMesh2d), tr)
    IN {<<None, None>>,
        <<<<(c[2][1] - c[1][1] + 2) \div 3>>, <<(c[2][2] - c[1][2] + 1) \div 2>>>>}

(* Arrays left in nodes_arrays by earlier runs.                            *)
OldArray == <<R(1), R(2), R(3), R(4)>>

CacheChoices ==
    {[n \in {LoadName(pr[1], pr[2]) : pr \in P} |-> OldArray] :
        P \in {{}, {<<"u3", 0>>},
               {<<"u1", 0>>, <<"u3", 1>>, <<"u3", MaxNdt>>},
               {"u1", "u2", "u3"} \X (0 .. MaxNdt)}}

InitRun ==
    /\ ndt \in 1 .. MaxNdt
    /\ bounds = BoundsOf(SourceMesh2d)
    /\ transformer \in RunTransformers
    /\ \E res \in ResolutionChoices(transformer) :
         args \in [instants : InstantChoices,
                   only_vertical : BOOLEAN,
                   raster_file : RasterChoices,
                   points_given : PointsGivenChoices,
                   outx_resolution : {res[1]},
                   outy_resolution : {res[2]}]
    /\ nodes_arrays \in CacheChoices
    /\ cache0 = DOMAIN nodes_arrays
    /\ pc = "start"
    /\ err = "none"
    /\ instants = <<>>
    /\ variables = <<>>
    /\ warned = FALSE
    /\ nodes2generate = <<>>
    /\ gen_i = 0
    /\ calls = <<>>
    /\ mode = ""
    /\ x_axis = <<>>
    /\ y_axis = <<>>
    /\ slice_i = 0
    /\ ds = <<>>
    /\ grd = <<>>
    /\ SW_new = <<>>
    /\ NE_new = <<>>
    /\ hc_pc = "idle"
    /\ mesh3d = [nvertices |-> 0, faces |-> <<>>, area_faces |-> <<>>]
    /\ values = <<>>
    /\ variable = ""
    /\ instant = 0
    /\ an_pc = "idle"
    /\ an_err = "none"
    /\ IdleBary
    /\ IdleConv
    /\ IdleRect
    /\ IdleInterp

(* Lines 389-414 and 418: the instants and variables, the probe of the     *)
(* directory nodes_arrays, the 3D mesh.                                    *)
S2H_Begin ==
    /\ pc = "start"
    /\ instants' = IF args.instants = <<>> THEN Range0(ndt) ELSE args.instants
    /\ warned' = (args.instants # <<>> /\
                  \E k \in 1 .. Len(args.instants) :
                      args.instants[k] \notin 0 .. ndt - 1)
    /\ variables' = VariablesOf(args.only_vertical)
    /\ nodes2generate' = Nodes2Generate(nodes_arrays, variables', instants')
    /\ gen_i' = 0
    /\ mesh3d' = SourceMesh3d
    /\ pc' = "generate"
    /\ UNCHANGED <<args, ndt, err, calls, cache0, mode, x_axis, y_axis, slice_i,
                   ds, grd, bary_in, bary_out, cvvars, rcvars, ipvars, hcvars, values, variable,
                   instant, nodes_arrays, an_pc, an_err>>

(* Lines 419-421: one call of assign_nodes_values.                         *)
S2H_Generate ==
    /\ pc = "generate"
    /\ gen_i < Len(nodes2generate)
    /\ LET pr == nodes2generate[gen_i + 1]
           res == assign_nodes_values(nodes_arrays, mesh3d, ReadData(pr[1], ndt),
                                      pr[1], pr[2])
       IN /\ variable' = pr[1]
          /\ instant' = pr[2]
          /\ values' = ReadData(pr[1], ndt)
          /\ calls' = Append(calls, pr)
          /\ nodes_arrays' = res.nodes_arrays
          /\ an_err' = res.err
          /\ err' = res.err
          /\ pc' = IF res.err = "none" THEN "generate" ELSE "error"
    /\ gen_i' = gen_i + 1
    /\ UNCHANGED <<args, ndt, instants, variables, warned, nodes2generate, cache0,
                   mode, x_axis, y_axis, slice_i, ds, grd, bary_in, bary_out, cvvars, rcvars,
                   ipvars, hcvars, mesh3d, an_pc>>

(* Lines 426-496: the reprojected mesh, the corners, the axes, the points  *)
(* and the header of the output file.                                      *)
S2H_BuildGrid ==
    /\ pc = "generate"
    /\ gen_i = Len(nodes2generate)
    /\ LET corners == hysea_mesh_corners(BoundsOf(SourceMesh2d), transformer)
           axes == ChooseAxes(args, corners[1], corners[2])
       IN /\ mesh2d' = RemoveLastComponent(mesh2dCRSconversion(SourceMesh2d, transformer))
          /\ SW_new' = corners[1]
          /\ NE_new' = corners[2]
          /\ mode' = axes.mode
          /\ x_axis' = axes.x
          /\ y_axis' = axes.y
          /\ err' = axes.err
          /\ points' = AddZ(Product(axes.x, axes.y))
          /\ points0' = points'
          /\ IF axes.err = "none"
             THEN /\ pc' = "slices"
                  /\ ds' = [x |-> axes.x, y |-> axes.y, data |-> <<>>]
             ELSE /\ pc' = "error"
                  /\ ds' = ds
    /\ slice_i' = 0
    /\ UNCHANGED <<args, ndt, instants, variables, warned, nodes2generate, gen_i,
                   calls, cache0, grd, bary_in, bary_out, cvvars, rcvars, nodes_values,
                   face_indexes, interpolated_values, cast_memo, ip_pc, ip_err,
                   bounds, transformer, hc_pc, anvars>>

(* Lines 501-507 or 516-523: one slice loaded, interpolated, reshaped and  *)
(* written.  np.load of a missing file raises FileNotFoundError; with no   *)
(* point at all np.delete(points, 2, 1) raises IndexError, the array then  *)
(* having two columns.                                                     *)
S2H_Slice ==
    /\ pc = "slices"
    /\ slice_i < Len(SliceOrder(variables, instants))
    /\ LET pr == SliceOrder(variables, instants)[slice_i + 1]
           Nrow == Len(y_axis)
           Ncolumn == Len(x_axis)
       IN IF LoadName(pr[1], pr[2]) \notin DOMAIN nodes_arrays
          THEN /\ err' = "FileNotFoundError"
               /\ pc' = "error"
               /\ UNCHANGED <<ds, nodes_values, points, face_indexes,
                              interpolated_values, cast_memo>>
          ELSE IF Len(points) = 0
          THEN /\ err' = "IndexError"
               /\ pc' = "error"
               /\ nodes_values' = nodes_arrays[LoadName(pr[1], pr[2])]
               /\ UNCHANGED <<ds, points, face_indexes, interpolated_values,
                              cast_memo>>
          ELSE /\ nodes_values' = nodes_arrays[LoadName(pr[1], pr[2])]
               /\ \E res \in interpolate_pointCloud(points, mesh2d,
                                                    nodes_values', cast_memo) :
                    /\ points' = res.points
                    /\ face_indexes' = res.face_indexes
                    /\ interpolated_values' = res.interpolated_values
                    /\ cast_memo' = res.cast_memo
                    /\ ds' = [ds EXCEPT !.data =
                                 (pr :> GridOf(res.interpolated_values, Ncolumn, Nrow))
                                   @@ ds.data]
               /\ err' = "none"
               /\ pc' = "slices"
    /\ slice_i' = slice_i + 1
    /\ UNCHANGED <<args, ndt, instants, variables, warned, nodes2generate, gen_i,
                   calls, cache0, mode, x_axis, y_axis, grd, bary_in, bary_out, cvvars, rcvars,
                   mesh2d, points0, ip_pc, ip_err, hcvars, anvars>>

(* Lines 525-526.                                                          *)
S2H_Close ==
    /\ pc = "slices"
    /\ slice_i = Len(SliceOrder(variables, instants))
    /\ pc' = "done"
    /\ UNCHANGED <<args, ndt, err, instants, variables, warned, nodes2generate,
                   gen_i, calls, cache0, mode, x_axis, y_axis, slice_i, ds, grd,
                   bary_in, bary_out, cvvars, rcvars, ipvars, hcvars, anvars>>

(* generate_bathymetry (lines 358-364) with generate_grd (lines 242-254).  *)
GenerateBathymetry ==
    /\ pc = "start"
    /\ LET corners == hysea_mesh_corners(BoundsOf(SourceMesh2d), transformer)
           sw == corners[1]
           ne == corners[2]
           xs == ArangeStep(sw[1], ne[1], StepOf(args.outx_resolution))
           ys == ArangeStep(sw[2], ne[2], StepOf(args.outy_resolution))
           Nrow == Len(ys)
           Ncolumn == Len(xs)
       IN /\ mesh3d' = SourceMesh3d
          /\ mesh2d' = RemoveLastComponent(mesh2dCRSconversion(SourceMesh2d, transformer))
          /\ SW_new' = sw
          /\ NE_new' = ne
          /\ x_axis' = xs
          /\ y_axis' = ys
          /\ points0' = AddZ(Product(xs, ys))
          /\ nodes_values' = Bathymetry
          /\ IF Len(points0') = 0
             THEN /\ err' = "IndexError"
                  /\ pc' = "error"
                  /\ points' = points0'
                  /\ UNCHANGED <<face_indexes, interpolated_values, cast_memo, grd>>
             ELSE /\ \E res \in interpolate_pointCloud(points0', mesh2d',
                                                       Bathymetry, cast_memo) :
                       /\ points' = res.points
                       /\ face_indexes' = res.face_indexes
                       /\ interpolated_values' = res.interpolated_values
                       /\ cast_memo' = res.cast_memo
                       /\ grd' = [x |-> xs, y |-> ys,
                                  z |-> GridOf(res.interpolated_values, Ncolumn, Nrow)]
                  /\ err' = "none"
                  /\ pc' = "grd_done"
    /\ UNCHANGED <<args, ndt, instants, variables, warned, nodes2generate, gen_i,
                   calls, cache0, mode, slice_i, ds, bary_in, bary_out, cvvars, rcvars, ip_pc,
                   ip_err, bounds, transformer, hc_pc, values, variable, instant,
                   nodes_arrays, an_pc, an_err>>

Next ==
    \/ S2H_Begin
    \/ S2H_Generate
    \/ S2H_BuildGrid
    \/ S2H_Slice
    \/ S2H_Close
    \/ GenerateBathymetry

Spec == InitRun /\ [][Next]_vars

(* The row of the point array generated for column col and row r: x is    *)
(* the outer index and y the inner one.                                    *)
RowOf(col, r) == (col - 1) * Len(y_axis) + r

(* The structured array last written: the slice of seissol2hysea or the    *)
(* grid of generate_grd.                                                   *)
LastWritten ==
    IF pc = "grd_done" THEN grd.z
    ELSE ds.data[SliceOrder(variables, instants)[slice_i]]

SliceWritten ==
    \/ pc = "grd_done"
    \/ pc \in {"slices", "done"} /\ slice_i > 0

(* Linear interpolation of nodes_values at q over face f of mesh2d.        *)
ValueAt(q, f) ==
    LET face == PyIndex(mesh2d.faces, f)
        a == PyIndex(mesh2d.vertices, face[1])
        b == PyIndex(mesh2d.vertices, face[2])
        c == PyIndex(mesh2d.vertices, face[3])
    IN AreaInterp(q, a, b, c, PyIndex(nodes_values, face[1]),
                  PyIndex(nodes_values, face[2]), PyIndex(nodes_values, face[3]))

(* C7: the points are generated with x as the outer and y as the inner      *)
(* index; the array written by generate_grd and by every slice of           *)
(* seissol2hysea has Len(y_axis) rows and Len(x_axis) columns, and its      *)
(* element [r][col] is the entry interpolate_pointCloud returned for the    *)
(* point (x_axis[col], y_axis[r]), which for a point located by the first   *)
(* ray cast is the linear interpolation at (x_axis[col], y_axis[r]).        *)
C7_GridLayout ==
    /\ pc \in {"slices", "done"} =>
           \A pr \in DOMAIN ds.data :
               /\ Len(ds.data[pr]) = Len(y_axis)
               /\ \A r \in 1 .. Len(y_axis) : Len(ds.data[pr][r]) = Len(x_axis)
    /\ SliceWritten =>
           /\ Len(points0) = Len(x_axis) * Len(y_axis)
           /\ Len(LastWritten) = Len(y_axis)
           /\ \A r \in 1 .. Len(y_axis) :
                /\ Len(LastWritten[r]) = Len(x_axis)
                /\ \A col \in 1 .. Len(x_axis) :
                     /\ points0[RowOf(col, r)] = <<x_axis[col], y_axis[r], ZStart>>
                     /\ LastWritten[r][col] = interpolated_values[RowOf(col, r)]
                     /\ points[RowOf(col, r)] = points0[RowOf(col, r)] =>
                            LastWritten[r][col] =
                                ValueAt(<<x_axis[col], y_axis[r]>>,
                                        face_indexes[RowOf(col, r)])

(* A slice of three columns and two rows whose transposed entries differ.   *)
C7_Witness ==
    /\ pc = "slices"
    /\ slice_i > 0
    /\ Len(x_axis) = 3
    /\ Len(y_axis) = 2
    /\ LastWritten[1][2] # LastWritten[2][1]
    /\ points[RowOf(2, 1)] = points0[RowOf(2, 1)]

(* The entries of src from lo up to, not including, hi.                     *)
Inside(src, lo, hi) == SelectSeq(src, LAMBDA v : lo <= v /\ v < hi)

RasterAxis(names) ==
    IF ExtensionOf(args.raster_file) = "tif"
    THEN IF "x" \in names THEN {args.raster_file.xs0}
         ELSE {Reversed(args.raster_file.ys_column)}
    ELSE {args.raster_file.vars[k][2] :
             k \in {j \in 1 .. Len(args.raster_file.vars) :
                       args.raster_file.vars[j][1] \in names}}

IsArange(axis, lo, hi, step) ==
    /\ \A k \in 1 .. Len(axis) : axis[k] = lo + (k - 1) * step /\ axis[k] < hi
    /\ lo + Len(axis) * step >= hi

(* C8: the axes of seissol2hysea come from one mode, the first supplied of  *)
(* points_given, raster_file and the resolutions: with points_given they    *)
(* are its entries inside the corners whatever the raster file and the      *)
(* resolutions are, without points_given and with a raster file they are    *)
(* the entries of the axes of the file inside the corners whatever the      *)
(* resolutions are, and only with neither are they the partition of the     *)
(* rectangle of the corners by the resolutions.                             *)
C8_ModePrecedence ==
    /\ mode # "" =>
           mode = IF args.points_given # None THEN "points_given"
                  ELSE IF args.raster_file.name # None THEN "raster_file"
                  ELSE "resolution"
    /\ pc \in {"slices", "done"} =>
           IF args.points_given # None
           THEN /\ x_axis = Inside(args.points_given[1], SW_new[1], NE_new[1])
                /\ y_axis = Inside(args.points_given[2], SW_new[2], NE_new[2])
           ELSE IF args.raster_file.name # None
           THEN /\ \E src \in RasterAxis({"lon", "x", "longitude"}) :
                       x_axis = Inside(src, SW_new[1], NE_new[1])
                /\ \E src \in RasterAxis({"lat", "y", "latitude"}) :
                       y_axis = Inside(src, SW_new[2], NE_new[2])
           ELSE /\ IsArange(x_axis, SW_new[1], NE_new[1], StepOf(args.outx_resolution))
                /\ IsArange(y_axis, SW_new[2], NE_new[2], StepOf(args.outy_resolution))

(* All three inputs supplied, and the axes those of points_given.           *)
C8_Witness ==
    /\ pc = "slices"
    /\ args.points_given # None
    /\ args.raster_file.name # None
    /\ args.outx_resolution # None
    /\ mode = "points_given"
    /\ x_axis # <<>>
    /\ \A src \in RasterAxis({"lon", "x", "longitude"}) :
           x_axis # Inside(src, SW_new[1], NE_new[1])

(* The (variable, instant) pairs the run asks for.                          *)
Requested ==
    {<<variables[i], instants[j]>> : i \in 1 .. Len(variables),
                                     j \in 1 .. Len(instants)}

CallsFor(pr) == Cardinality({k \in 1 .. Len(calls) : calls[k] = pr})

(* C9: assign_nodes_values is called exactly once for each requested pair   *)
(* whose array was not in nodes_arrays at the start and never for a pair    *)
(* whose array was there, and when the slices begin the array of every      *)
(* requested pair is in nodes_arrays under the name built from its variable *)
(* and instant.                                                             *)
C9_GenerateOncePerAbsentPair ==
    /\ \A k \in 1 .. Len(calls) :
           /\ calls[k] \in Requested
           /\ LoadName(calls[k][1], calls[k][2]) \notin cache0
           /\ CallsFor(calls[k]) = 1
    /\ pc \in {"slices", "done"} =>
           \A pr \in Requested :
               /\ LoadName(pr[1], pr[2]) \in DOMAIN nodes_arrays
               /\ LoadName(pr[1], pr[2]) \notin cache0 => CallsFor(pr) = 1


(* ---------------------------------------------------------------------- *)
(* mesh2dCRSconversion                                                     *)
(* ---------------------------------------------------------------------- *)
(* The meshes of generateMesh2DfromSeissol: up to MaxPts vertices with     *)
(* z = 0, repeated positions allowed, and any face over them.              *)
FlatVertices == {<<x, y, 0>> : x \in 0 .. MaxExtent, y \in 0 .. MaxExtent}

FlatMeshes ==
    UNION {[vertices : [1 .. n -> FlatVertices],
            faces : {<<>>, <<<<0, n - 1, 0>>>>, <<<<n - 1, 0, 0>>, <<0, 0, n - 1>>>>}] :
           n \in 1 .. MaxPts}

(* Transforms whose distortion does not change along y, and along x only   *)
(* over the first two columns.                                             *)
ConvTransformers ==
    {tr \in [a : [0 .. MaxExtent -> 0 .. MaxShift],
             c : [0 .. MaxExtent -> 0 .. MaxShift]] :
        /\ \A k \in 0 .. MaxExtent : tr.a[k] = tr.a[0]
        /\ \A k \in 2 .. MaxExtent : tr.c[k] = 0}

InitConv ==
    /\ conv_in0 \in FlatMeshes
    /\ conv_in = conv_in0
    /\ conv_out = <<>>
    /\ conv_pc = "ready"
    /\ transformer \in ConvTransformers
    /\ bounds = <<>>
    /\ SW_new = <<>>
    /\ NE_new = <<>>
    /\ hc_pc = "idle"
    /\ IdleBary
    /\ IdleRect
    /\ IdleInterp
    /\ IdleAssign
    /\ IdleRun

(* mesh2d_wgs = mesh2dCRSconversion(mesh2d, crs): the function assigns to  *)
(* no element of its argument.                                             *)
CallMesh2dCRSconversion ==
    /\ conv_pc = "ready"
    /\ conv_out' = mesh2dCRSconversion(conv_in, transformer)
    /\ conv_pc' = "done"
    /\ UNCHANGED <<conv_in0, conv_in, rcvars, bary_in, bary_out, ipvars, anvars, hcvars,
                   runvars>>

NextConv == CallMesh2dCRSconversion

SpecConv == InitConv /\ [][NextConv]_vars

(* C11: the mesh returned has as many vertices as the input, in the same    *)
(* order, and the faces of the input; its vertex i is the transform of the  *)
(* x and y of vertex i of the input with z = 0, whatever the other vertices *)
(* are; the vertices and faces of the input are as before the call.         *)
C11_ReprojectedCopy ==
    conv_pc = "done" =>
        /\ Len(conv_out.vertices) = Len(conv_in0.vertices)
        /\ conv_out.faces = conv_in0.faces
        /\ \A i \in 1 .. Len(conv_in0.vertices) :
             conv_out.vertices[i] =
                 <<Transform(transformer, conv_in0.vertices[i][1],
                             conv_in0.vertices[i][2])[1],
                   Transform(transformer, conv_in0.vertices[i][1],
                             conv_in0.vertices[i][2])[2],
                   0>>
        /\ conv_in = conv_in0

(* Two vertices in different columns whose images are distorted differently, *)
(* under a mesh with faces.                                                  *)
C11_Witness ==
    /\ conv_pc = "done"
    /\ Len(conv_in0.vertices) = 2
    /\ conv_in0.faces # <<>>
    /\ conv_in0.vertices[1][1] # conv_in0.vertices[2][1]
    /\ transformer.c[conv_in0.vertices[1][1]] # transformer.c[conv_in0.vertices[2][1]]
    /\ conv_out.vertices[1] # conv_in0.vertices[1]


(* ---------------------------------------------------------------------- *)
(* get_values_inside_rectangle                                             *)
(* ---------------------------------------------------------------------- *)
(* The ascending sequences over 0 .. MaxCoord of at most n entries,        *)
(* repeated entries included.                                              *)
AscendingSeqs(n) ==
    {q \in SeqsUpTo(0 .. MaxCoord, n) :
        \A k \in 1 .. Len(q) - 1 : q[k] <= q[k + 1]}

(* Rectangle edges below, among and above the entries of the axes; the     *)
(* upper edge may lie below the lower one.                                 *)
EdgeChoices == -1 .. MaxCoord + 1

InitRect ==
    /\ \E xs \in AscendingSeqs(MaxPts + 1), ys \in AscendingSeqs(MaxPts),
          sw1 \in EdgeChoices, ne1 \in EdgeChoices,
          sw2 \in {0, 1}, ne2 \in EdgeChoices :
         rect_in = <<xs, ys, <<sw1, sw2>>, <<ne1, ne2>>>>
    /\ rect_out = <<>>
    /\ IdleBary
    /\ IdleConv
    /\ IdleInterp
    /\ IdleAssign
    /\ IdleCorners
    /\ IdleRun

(* x, y = get_values_inside_rectangle(x, y, SW, NE)                        *)
CallGetValuesInsideRectangle ==
    /\ rect_in # <<>>
    /\ rect_out = <<>>
    /\ rect_out' = get_values_inside_rectangle(rect_in[1], rect_in[2],
                                               rect_in[3], rect_in[4])
    /\ UNCHANGED <<rect_in, bary_in, bary_out, cvvars, ipvars, anvars, hcvars,
                   runvars>>

NextRect == CallGetValuesInsideRectangle

SpecRect == InitRect /\ [][NextRect]_vars

(* The first 0-based index of axis whose entry is >= v, len(axis) if none.  *)
FirstAtLeast(axis, v) ==
    Min({k \in 0 .. Len(axis) : k = Len(axis) \/ axis[k + 1] >= v})

(* out is axis[FirstAtLeast(axis, lo) : FirstAtLeast(axis, hi)] and holds   *)
(* exactly the entries of axis from lo up to, not including, hi.            *)
FilteredAxis(out, axis, lo, hi) ==
    /\ out = PySlice(axis, FirstAtLeast(axis, lo), FirstAtLeast(axis, hi))
    /\ out = Inside(axis, lo, hi)

RaysCastFor(i) ==
    {r \in {points0[i], Perturb(points0[i])} :
        /\ r \in DOMAIN cast_memo
        /\ r = points0[i] \/ cast_memo[points0[i]] = -1}

(* C13: every query point is ray-cast once, and once more, moved by eps,    *)
(* exactly when the first cast found no triangle; no other ray is cast,     *)
(* whatever the second cast finds and however many points miss, and the     *)
(* call has returned one face index and one value per point.                *)
C13_AtMostTwoCasts ==
    ip_pc = "done" =>
        /\ DOMAIN cast_memo = UNION {RaysCastFor(i) : i \in QueryIds}
        /\ Len(face_indexes) = Len(points0)
        /\ Len(interpolated_values) = Len(points0)
        /\ \A i \in QueryIds :
             /\ points0[i] \in RaysCastFor(i)
             /\ Perturb(points0[i]) \in RaysCastFor(i) <=> cast_memo[points0[i]] = -1
             /\ face_indexes[i] = IF cast_memo[points0[i]] = -1
                                  THEN cast_memo[Perturb(points0[i])]
                                  ELSE cast_memo[points0[i]]

(* Two points, the first missed by both casts, the second found at once:    *)
(* three rays in all.                                                       *)
C13_Witness ==
    /\ ip_pc = "done"
    /\ Len(points0) = 2
    /\ cast_memo[points0[1]] = -1
    /\ face_indexes[1] = -1
    /\ face_indexes[2] # -1
    /\ Cardinality(DOMAIN cast_memo) = 3


(* ---------------------------------------------------------------------- *)
(* The point array of seissol2hysea across the slices                      *)
(* ---------------------------------------------------------------------- *)
(* C14: the calls of interpolate_pointCloud leave the point array of        *)
(* seissol2hysea as lines 475-478 built it, so that before and after every  *)
(* slice its rows are the points (x, y, -1) of the axes written to the      *)
(* output.                                                                  *)
C14_PointsUnchanged ==
    pc \in {"slices", "done"} =>
        /\ points = points0
        /\ points = AddZ(Product(ds.x, ds.y))


(* ---------------------------------------------------------------------- *)
(* The instants of seissol2hysea                                           *)
(* ---------------------------------------------------------------------- *)
(* C15: every instant that assign_nodes_values is called with, and every    *)
(* instant a slice of the output is written at, is one of 0 .. ndt-1; with  *)
(* no instants supplied a finished run has written all of 0 .. ndt-1.       *)
C15_InstantsInRange ==
    /\ \A k \in 1 .. Len(calls) : calls[k][2] \in 0 .. ndt - 1
    /\ pc \in {"slices", "done"} =>
           \A pr \in DOMAIN ds.data : pr[2] \in 0 .. ndt - 1
    /\ (pc = "done" /\ args.instants = <<>>) =>
           {pr[2] : pr \in DOMAIN ds.data} = 0 .. ndt - 1

====
